---- MODULE Spec2Model ----
(***************************************************************************)
(* The raster formatter of knossos (src/maze/formatters/image.rs) and the  *)
(* grid it renders.  A formatter is configured by builder setters, a grid  *)
(* is built by carve_passage calls, and format() allocates a pixel buffer, *)
(* fills it with the background colour and draws every cell.               *)
(***************************************************************************)
EXTENDS Integers, FiniteSets, Sequences, TLC

VARIABLES
    wall_width,        \* Image.wall_width
    passage_width,     \* Image.passage_width
    margin,            \* Image.margin
    background_color,  \* Image.background_color
    foreground_color,  \* Image.foreground_color
    set_log,           \* history: the last value each setter was called with
    grid_width,        \* Grid::width()
    grid_height,       \* Grid::height()
    cells,             \* Grid::cells(): coords -> set of carved poles
    carve_result,      \* what the last carve_passage call returned to the builder
    pc,                \* position of the caller / of format()
    image_width,       \* width of the buffer format() created
    image_height,      \* height of the buffer format() created
    image,             \* the RgbImage: pixel -> colour
    drawn,             \* cells draw_maze has already passed to draw_cell
    written            \* history: cell -> pixels draw_cell passed to get_pixel_mut

vars == <<wall_width, passage_width, margin, background_color, foreground_color,
          set_log, grid_width, grid_height, cells, carve_result, pc,
          image_width, image_height, image, drawn, written>>

image_fields == <<wall_width, passage_width, margin, background_color,
                  foreground_color, set_log>>
grid_fields == <<grid_width, grid_height, cells, carve_result>>
buffer_fields == <<image_width, image_height, image, drawn, written>>

----------------------------------------------------------------------------
(* Bounds of the model *)

MaxWall == 2
MaxPassage == 1
MaxMargin == 1
MaxCells == 4
MaxAnyOrderCells == 3
MaxSet == 2
MaxSizesDim == 4

----------------------------------------------------------------------------
(* Colours and the formatter's parameters *)

RGB(r, g, b) == <<r, g, b>>

DefaultWall == 40
DefaultPassage == 40
DefaultMargin == 50
DefaultBackground == RGB(250, 250, 250)
DefaultForeground == RGB(0, 0, 0)

Colors == {RGB(250, 250, 250), RGB(0, 0, 0), RGB(1, 1, 1), RGB(100, 100, 100)}

\* <<background, foreground>> of the formatters the tests build.
ColorPairs == {<<DefaultBackground, DefaultForeground>>,
               <<RGB(1, 1, 1), RGB(100, 100, 100)>>}

\* Entries of set_log: a setter that was never called, or its last argument.
Unset == <<>>
Set(v) == <<v>>

Poles == {"N", "E", "S", "W"}

opposite(p) ==
    CASE p = "N" -> "S"
      [] p = "S" -> "N"
      [] p = "E" -> "W"
      [] p = "W" -> "E"

----------------------------------------------------------------------------
(* Grid model *)

Coords == (0 .. grid_width - 1) \X (0 .. grid_height - 1)

\* The cell one step in direction p; coordinates are unsigned, so a step off
\* the low edge has no result either.
Neighbor(c, p) ==
    CASE p = "N" -> <<c[1], c[2] - 1>>
      [] p = "S" -> <<c[1], c[2] + 1>>
      [] p = "E" -> <<c[1] + 1, c[2]>>
      [] p = "W" -> <<c[1] - 1, c[2]>>

NewCells(w, h) == [c \in (0 .. w - 1) \X (0 .. h - 1) |-> {}]

carved(walls, p) == p \in walls

\* A carve that writes the first cell before it looks for the neighbour.
CarveCellsEager(cs, c, p) ==
    IF c \notin DOMAIN cs THEN cs
    ELSE IF Neighbor(c, p) \notin DOMAIN cs THEN [cs EXCEPT ![c] = @ \cup {p}]
    ELSE [cs EXCEPT ![c] = @ \cup {p}, ![Neighbor(c, p)] = @ \cup {opposite(p)}]

\* The cells after carve_passage(c, p): both sides opened, or nothing changed.
CarveCells(cs, c, p) ==
    IF c \notin DOMAIN cs \/ Neighbor(c, p) \notin DOMAIN cs THEN cs
    ELSE [cs EXCEPT ![c] = @ \cup {p}, ![Neighbor(c, p)] = @ \cup {opposite(p)}]

CarveResult(cs, c, p) ==
    IF c \notin DOMAIN cs \/ Neighbor(c, p) \notin DOMAIN cs
    THEN "OutOfBounds" ELSE "Ok"

carve_passage(c, p) ==
    /\ pc = "ready"
    /\ cells' = CarveCells(cells, c, p)
    /\ carve_result' = CarveResult(cells, c, p)
    /\ UNCHANGED <<grid_width, grid_height, pc>>
    /\ UNCHANGED image_fields
    /\ UNCHANGED buffer_fields

----------------------------------------------------------------------------
(* Builder setters *)

\* wall() with the assignment of the next setter pasted in: it stores the
\* width in passage_width too.
wall_sets_passage(width) ==
    /\ pc = "ready"
    /\ wall_width' = width
    /\ passage_width' = width
    /\ set_log' = [set_log EXCEPT !.wall = Set(width)]
    /\ UNCHANGED <<margin, background_color, foreground_color, pc>>
    /\ UNCHANGED grid_fields
    /\ UNCHANGED buffer_fields

wall(width) ==
    /\ pc = "ready"
    /\ wall_width' = width
    /\ set_log' = [set_log EXCEPT !.wall = Set(width)]
    /\ UNCHANGED <<passage_width, margin, background_color, foreground_color, pc>>
    /\ UNCHANGED grid_fields
    /\ UNCHANGED buffer_fields

passage(width) ==
    /\ pc = "ready"
    /\ passage_width' = width
    /\ set_log' = [set_log EXCEPT !.passage = Set(width)]
    /\ UNCHANGED <<wall_width, margin, background_color, foreground_color, pc>>
    /\ UNCHANGED grid_fields
    /\ UNCHANGED buffer_fields

background(color) ==
    /\ pc = "ready"
    /\ background_color' = color
    /\ set_log' = [set_log EXCEPT !.background = Set(color)]
    /\ UNCHANGED <<wall_width, passage_width, margin, foreground_color, pc>>
    /\ UNCHANGED grid_fields
    /\ UNCHANGED buffer_fields

foreground(color) ==
    /\ pc = "ready"
    /\ foreground_color' = color
    /\ set_log' = [set_log EXCEPT !.foreground = Set(color)]
    /\ UNCHANGED <<wall_width, passage_width, margin, background_color, pc>>
    /\ UNCHANGED grid_fields
    /\ UNCHANGED buffer_fields

margin_set(value) ==
    /\ pc = "ready"
    /\ margin' = value
    /\ set_log' = [set_log EXCEPT !.margin = Set(value)]
    /\ UNCHANGED <<wall_width, passage_width, background_color, foreground_color, pc>>
    /\ UNCHANGED grid_fields
    /\ UNCHANGED buffer_fields

----------------------------------------------------------------------------
(* Geometry *)

cell_width == wall_width * 2 + passage_width

\* sizes() without the subtraction of the joint walls.
sizesNoJoint ==
    <<cell_width * grid_width + margin * 2, cell_width * grid_height + margin * 2>>

sizes ==
    LET maze_width == cell_width * grid_width - (grid_width - 1) * wall_width
        maze_height == cell_width * grid_height - (grid_height - 1) * wall_width
    IN <<maze_width + margin * 2, maze_height + margin * 2>>

cell_width_without_joint_wall == cell_width - wall_width

start_of(i) == i * cell_width_without_joint_wall + margin

\* The pixels the two loops of draw_cell visit for the cell at c.
CellRange(c) ==
    (start_of(c[1]) .. start_of(c[1]) + cell_width)
        \X (start_of(c[2]) .. start_of(c[2]) + cell_width)

----------------------------------------------------------------------------
(* draw_cell: the nine zones, in the order the code tests them *)

NW == 1
NE == 3
SW == 7
SE == 9
NEdge == 2
WEdge == 4
Center == 5
EEdge == 6
SEdge == 8
Regions == 1 .. 9

\* The three bands of a cell along one axis, for a pixel coordinate v of the
\* cell that starts at `start`; neighbouring bands share their boundary value.
LowBand(v, start) == v >= start /\ v <= start + wall_width
MidBand(v, start) ==
    v >= start + wall_width /\ v <= start + cell_width_without_joint_wall
HighBand(v, start) ==
    v >= start + cell_width_without_joint_wall /\ v <= start + cell_width

\* The range test of the r-th `if` of the loop body, for pixel (x, y) of the
\* cell that starts at (start_x, start_y).
InRegion(r, start_x, start_y, x, y) ==
    CASE r = NW -> LowBand(x, start_x) /\ LowBand(y, start_y)
      [] r = NEdge -> MidBand(x, start_x) /\ LowBand(y, start_y)
      [] r = NE -> HighBand(x, start_x) /\ LowBand(y, start_y)
      [] r = WEdge -> LowBand(x, start_x) /\ MidBand(y, start_y)
      [] r = Center -> MidBand(x, start_x) /\ MidBand(y, start_y)
      [] r = EEdge -> HighBand(x, start_x) /\ MidBand(y, start_y)
      [] r = SW -> LowBand(x, start_x) /\ HighBand(y, start_y)
      [] r = SEdge -> MidBand(x, start_x) /\ HighBand(y, start_y)
      [] r = SE -> HighBand(x, start_x) /\ HighBand(y, start_y)

\* The zones' conditions with the western edge testing the eastern wall.
SkipWhenWestTestsEast(r, walls) ==
    CASE r = NW -> carved(walls, "N") /\ carved(walls, "W")
      [] r = NEdge -> carved(walls, "N")
      [] r = NE -> carved(walls, "N") /\ carved(walls, "E")
      [] r = WEdge -> carved(walls, "E")
      [] r = Center -> TRUE
      [] r = EEdge -> carved(walls, "E")
      [] r = SW -> carved(walls, "S") /\ carved(walls, "W")
      [] r = SEdge -> carved(walls, "S")
      [] r = SE -> carved(walls, "S") /\ carved(walls, "E")

\* The zones' conditions with a corner skipped when either wall is carved.
SkipWhenEitherCarved(r, walls) ==
    CASE r = NW -> carved(walls, "N") \/ carved(walls, "W")
      [] r = NEdge -> carved(walls, "N")
      [] r = NE -> carved(walls, "N") \/ carved(walls, "E")
      [] r = WEdge -> carved(walls, "W")
      [] r = Center -> TRUE
      [] r = EEdge -> carved(walls, "E")
      [] r = SW -> carved(walls, "S") \/ carved(walls, "W")
      [] r = SEdge -> carved(walls, "S")
      [] r = SE -> carved(walls, "S") \/ carved(walls, "E")

\* The condition under which the r-th `if` executes `continue`.
SkipWhen(r, walls) ==
    CASE r = NW -> carved(walls, "N") /\ carved(walls, "W")
      [] r = NEdge -> carved(walls, "N")
      [] r = NE -> carved(walls, "N") /\ carved(walls, "E")
      [] r = WEdge -> carved(walls, "W")
      [] r = Center -> TRUE
      [] r = EEdge -> carved(walls, "E")
      [] r = SW -> carved(walls, "S") /\ carved(walls, "W")
      [] r = SEdge -> carved(walls, "S")
      [] r = SE -> carved(walls, "S") /\ carved(walls, "E")

\* The loop body as an if / else-if chain: the first zone that contains the
\* pixel decides.
FillsFirstMatch(walls, start_x, start_y, x, y) ==
    LET lowX == LowBand(x, start_x)
        midX == MidBand(x, start_x)
        highX == HighBand(x, start_x)
        lowY == LowBand(y, start_y)
        midY == MidBand(y, start_y)
        highY == HighBand(y, start_y)
    IN IF lowX /\ lowY THEN ~SkipWhen(NW, walls)
       ELSE IF midX /\ lowY THEN ~SkipWhen(NEdge, walls)
       ELSE IF highX /\ lowY THEN ~SkipWhen(NE, walls)
       ELSE IF lowX /\ midY THEN ~SkipWhen(WEdge, walls)
       ELSE IF midX /\ midY THEN ~SkipWhen(Center, walls)
       ELSE IF highX /\ midY THEN ~SkipWhen(EEdge, walls)
       ELSE IF lowX /\ highY THEN ~SkipWhen(SW, walls)
       ELSE IF midX /\ highY THEN ~SkipWhen(SEdge, walls)
       ELSE IF highX /\ highY THEN ~SkipWhen(SE, walls)
       ELSE TRUE

\* The loop body for pixel (x, y): TRUE when control reaches the assignment to
\* the pixel, FALSE when some `continue` is executed first.  A zone whose inner
\* condition is false falls through to the next `if`.
Fills(walls, start_x, start_y, x, y) ==
    LET lowX == LowBand(x, start_x)
        midX == MidBand(x, start_x)
        highX == HighBand(x, start_x)
        lowY == LowBand(y, start_y)
        midY == MidBand(y, start_y)
        highY == HighBand(y, start_y)
    IN IF lowX /\ lowY /\ SkipWhen(NW, walls) THEN FALSE
       ELSE IF midX /\ lowY /\ SkipWhen(NEdge, walls) THEN FALSE
       ELSE IF highX /\ lowY /\ SkipWhen(NE, walls) THEN FALSE
       ELSE IF lowX /\ midY /\ SkipWhen(WEdge, walls) THEN FALSE
       ELSE IF midX /\ midY /\ SkipWhen(Center, walls) THEN FALSE
       ELSE IF highX /\ midY /\ SkipWhen(EEdge, walls) THEN FALSE
       ELSE IF lowX /\ highY /\ SkipWhen(SW, walls) THEN FALSE
       ELSE IF midX /\ highY /\ SkipWhen(SEdge, walls) THEN FALSE
       ELSE IF highX /\ highY /\ SkipWhen(SE, walls) THEN FALSE
       ELSE TRUE

\* The pixels draw_cell assigns the foreground colour to, for the cell at c.
CellPixels(c) ==
    {px \in CellRange(c) :
        Fills(cells[c], start_of(c[1]), start_of(c[2]), px[1], px[2])}

\* The loops run y outermost, x innermost.
ScanBefore(p, q) == p[2] < q[2] \/ (p[2] = q[2] /\ p[1] <= q[1])

InBuffer(px) == px[1] < image_width /\ px[2] < image_height

\* The pixels draw_cell passes to get_pixel_mut: all of CellPixels(c), or, when
\* one of them lies outside the buffer, those up to the first such pixel, at
\* which get_pixel_mut panics.
Attempted(c) ==
    LET fill == CellPixels(c)
        outside == {px \in fill : ~InBuffer(px)}
    IN IF outside = {} THEN fill
       ELSE LET first == CHOOSE b \in outside : \A q \in outside : ScanBefore(b, q)
            IN {px \in fill : ScanBefore(px, first)}

\* A draw_cell that fills the background again before it paints its pixels.
PutPixelsOnBackground(img, fill) ==
    [px \in DOMAIN img |-> IF px \in fill THEN foreground_color ELSE background_color]

\* The buffer after draw_cell has assigned the foreground colour to the pixels
\* of `fill`; every other pixel keeps its colour.
PutPixels(img, fill) ==
    [px \in DOMAIN img |-> IF px \in fill THEN foreground_color ELSE img[px]]

draw_cell(c) ==
    LET attempted == Attempted(c)
    IN /\ pc = "draw"
       /\ c \in Coords \ drawn
       /\ drawn' = drawn \cup {c}
       /\ written' = [written EXCEPT ![c] = attempted]
       /\ IF \A px \in attempted : InBuffer(px)
          THEN /\ image' = PutPixels(image, attempted)
               /\ pc' = IF drawn' = Coords THEN "done" ELSE "draw"
          ELSE /\ image' = image
               /\ pc' = "panic"
       /\ UNCHANGED <<image_width, image_height>>
       /\ UNCHANGED image_fields
       /\ UNCHANGED grid_fields

\* The cell draw_maze visits next: rows top to bottom, each left to right.
NextCell == CHOOSE c \in Coords \ drawn : \A d \in Coords \ drawn : ScanBefore(c, d)

draw_maze_step ==
    /\ pc = "draw"
    /\ draw_cell(NextCell)

\* The per-cell draws in an arbitrary order.
draw_any_cell == \E c \in Coords : draw_cell(c)

----------------------------------------------------------------------------
(* format *)

\* sizes(), ImageBuffer::new and fill_background.  The builder has dropped the
\* result of its last carve_passage call by the time it hands the grid over.
format_begin ==
    /\ pc = "ready"
    /\ image_width' = sizes[1]
    /\ image_height' = sizes[2]
    /\ image' = [px \in (0 .. sizes[1] - 1) \X (0 .. sizes[2] - 1) |-> background_color]
    /\ drawn' = {}
    /\ written' = [c \in Coords |-> {}]
    /\ pc' = "draw"
    /\ carve_result' = "none"
    /\ UNCHANGED <<grid_width, grid_height, cells>>
    /\ UNCHANGED image_fields

\* sizes() and the dimensions ImageBuffer::new is given.
format_sizes ==
    /\ pc = "ready"
    /\ image_width' = sizes[1]
    /\ image_height' = sizes[2]
    /\ pc' = "sized"
    /\ UNCHANGED <<image, drawn, written>>
    /\ UNCHANGED image_fields
    /\ UNCHANGED grid_fields

----------------------------------------------------------------------------
(* Specifications *)

\* A formatter after its builder calls and a newly constructed grid.
Init ==
    /\ wall_width \in 0 .. MaxWall
    /\ passage_width \in 0 .. MaxPassage
    /\ margin \in 0 .. MaxMargin
    /\ \E pair \in ColorPairs :
          /\ background_color = pair[1]
          /\ foreground_color = pair[2]
    /\ set_log = [wall |-> Set(wall_width), passage |-> Set(passage_width),
                  margin |-> Set(margin), background |-> Set(background_color),
                  foreground |-> Set(foreground_color)]
    /\ grid_width \in 1 .. MaxCells
    /\ grid_height \in 1 .. MaxCells
    /\ grid_width * grid_height <= MaxCells
    /\ cells = NewCells(grid_width, grid_height)
    /\ carve_result = "none"
    /\ pc = "ready"
    /\ image_width = 0
    /\ image_height = 0
    /\ image = <<>>
    /\ drawn = {}
    /\ written = <<>>

Carve == \E c \in (0 .. grid_width) \X (0 .. grid_height) : \E p \in Poles : carve_passage(c, p)

Next ==
    \/ Carve
    \/ format_begin
    \/ draw_maze_step

Spec == Init /\ [][Next]_vars

NextAnyOrder ==
    \/ Carve
    \/ format_begin
    \/ draw_any_cell

\* The same start, for grids small enough to draw in every order.
InitAnyOrder ==
    /\ Init
    /\ grid_width * grid_height <= MaxAnyOrderCells

SpecAnyOrder == InitAnyOrder /\ [][NextAnyOrder]_vars

\* Image::new() and a newly constructed grid.
InitConfig ==
    /\ wall_width = DefaultWall
    /\ passage_width = DefaultPassage
    /\ margin = DefaultMargin
    /\ background_color = DefaultBackground
    /\ foreground_color = DefaultForeground
    /\ set_log = [wall |-> Unset, passage |-> Unset, margin |-> Unset,
                  background |-> Unset, foreground |-> Unset]
    /\ grid_width \in 1 .. MaxSizesDim
    /\ grid_height \in 1 .. MaxSizesDim
    /\ cells = NewCells(grid_width, grid_height)
    /\ carve_result = "none"
    /\ pc = "ready"
    /\ image_width = 0
    /\ image_height = 0
    /\ image = <<>>
    /\ drawn = {}
    /\ written = <<>>

NextConfig ==
    \/ \E v \in 0 .. MaxSet : wall(v)
    \/ \E v \in 0 .. MaxSet : passage(v)
    \/ \E v \in 0 .. MaxSet : margin_set(v)
    \/ \E col \in Colors : background(col)
    \/ \E col \in Colors : foreground(col)
    \/ format_sizes

SpecConfig == InitConfig /\ [][NextConfig]_vars

----------------------------------------------------------------------------
(* Properties *)

Drawing == pc \in {"draw", "done"}

\* Wall and passage are positive, as the parameters are meant to be.
Positive == wall_width >= 1 /\ passage_width >= 1

\* Offsets of a pixel from the origin of the cell at c.
OffX(c, px) == px[1] - start_of(c[1])
OffY(c, px) == px[2] - start_of(c[2])

ZoneOf(r, c, px) == InRegion(r, start_of(c[1]), start_of(c[2]), px[1], px[2])

\* C1 (as claimed): format never fails, and every pixel draw_cell writes lies
\* inside the buffer whose size sizes() computed, whatever wall, passage and
\* margin are, 0 included.
C1_WritesInsideBuffer ==
    /\ pc # "panic"
    /\ \A c \in DOMAIN written : \A px \in written[c] : InBuffer(px)

\* The first zone, in the order of the tests, that contains the pixel.
FirstZone(c, px) ==
    CHOOSE r \in Regions :
        /\ ZoneOf(r, c, px)
        /\ \A q \in Regions : ZoneOf(q, c, px) => r <= q

\* C2 (as claimed, for positive wall and passage): for every pixel of a drawn
\* cell's range, the first zone that contains it alone decides: the cell
\* paints the pixel iff that zone's skip condition is false.
C2_FirstZoneGoverns ==
    (Drawing /\ Positive) =>
        \A c \in drawn : \A px \in CellRange(c) :
            px \in written[c] <=> ~SkipWhen(FirstZone(c, px), cells[c])

\* C2 (amended): for every pixel of a drawn cell's range, the cell paints the
\* pixel iff the skip condition of every zone that contains it is false; a
\* pixel on a boundary shared by several zones is skipped as soon as one of
\* them skips, whatever the order of the tests.
C2_EveryZoneGoverns ==
    Drawing =>
        \A c \in drawn : \A px \in CellRange(c) :
            px \in written[c] <=>
                \A r \in Regions : ZoneOf(r, c, px) => ~SkipWhen(r, cells[c])

\* C2 witness: a drawn cell with the northern wall carved and the western one
\* closed leaves the pixel at offset (wall, 0) unpainted although its first
\* zone, the NW corner, does not skip.
C2_Witness ==
    /\ pc = "done"
    /\ wall_width >= 1
    /\ \E c \in drawn :
        /\ carved(cells[c], "N") /\ ~carved(cells[c], "W")
        /\ <<start_of(c[1]) + wall_width, start_of(c[2])>> \notin written[c]
        /\ <<start_of(c[1]), start_of(c[2])>> \in written[c]

\* C3 (as claimed): with no wall carved and wall, passage, margin >= 1, in the
\* finished image every pixel whose offsets from some cell's origin both lie
\* in [wall, cell_span - wall] is background, and every other pixel of a
\* cell's range is foreground.
C3_ClosedGridPassagesBackground ==
    (/\ pc = "done"
     /\ \A c \in Coords : cells[c] = {}
     /\ wall_width >= 1 /\ passage_width >= 1 /\ margin >= 1) =>
        \A c \in Coords : \A px \in CellRange(c) :
            IF /\ OffX(c, px) >= wall_width
               /\ OffX(c, px) <= cell_width - wall_width
               /\ OffY(c, px) >= wall_width
               /\ OffY(c, px) <= cell_width - wall_width
            THEN image[px] = background_color
            ELSE image[px] = foreground_color

\* Horizontally or vertically adjacent cells: b is a's eastern or southern
\* neighbour.
Adjacent(a, b) ==
    /\ a \in Coords
    /\ b \in Coords
    /\ b = Neighbor(a, "E") \/ b = Neighbor(a, "S")

\* C4 (as claimed, for positive wall and passage): two adjacent drawn cells
\* make the same decision on every pixel that lies in both cells' ranges.
C4_NeighboursAgree ==
    (Drawing /\ Positive) =>
        \A a \in drawn : \A b \in drawn :
            Adjacent(a, b) =>
                \A px \in CellRange(a) \cap CellRange(b) :
                    px \in written[a] <=> px \in written[b]

\* The pixels of the strip shared by a and b that lie strictly between the
\* strip's two boundary lines and, along the wall, in [wall, cell_span - wall].
SharedWallInterior(a, b) ==
    {px \in CellRange(a) \cap CellRange(b) :
        IF b = Neighbor(a, "E")
        THEN /\ px[1] > start_of(b[1])
             /\ px[1] < start_of(a[1]) + cell_width
             /\ OffY(a, px) >= wall_width
             /\ OffY(a, px) <= cell_width - wall_width
        ELSE /\ px[2] > start_of(b[2])
             /\ px[2] < start_of(a[2]) + cell_width
             /\ OffX(a, px) >= wall_width
             /\ OffX(a, px) <= cell_width - wall_width}

\* C4 (amended): two adjacent drawn cells make the same decision on every
\* pixel of their shared strip that lies strictly inside the strip and whose
\* offset along the wall is in [wall, cell_span - wall]; on the strip's two
\* boundary lines and in the corner squares at its ends they may differ.
C4_NeighboursAgreeInside ==
    Drawing =>
        \A a \in drawn : \A b \in drawn :
            Adjacent(a, b) =>
                \A px \in SharedWallInterior(a, b) :
                    px \in written[a] <=> px \in written[b]

\* C4 witness: in the finished drawing one pair of adjacent cells has both
\* painted a pixel inside its shared strip (the shared wall is closed) and one
\* pair has both left such a pixel unpainted (the shared wall is carved).
C4_Witness ==
    /\ pc = "done"
    /\ \E a \in drawn : \E b \in drawn :
        /\ Adjacent(a, b)
        /\ \E px \in SharedWallInterior(a, b) : px \in written[a] /\ px \in written[b]
    /\ \E a \in drawn : \E b \in drawn :
        /\ Adjacent(a, b)
        /\ \E px \in SharedWallInterior(a, b) : px \notin written[a] /\ px \notin written[b]

Corners == {NW, NE, SW, SE}

\* The two walls that meet at a corner.
CornerWalls(r) ==
    CASE r = NW -> {"N", "W"}
      [] r = NE -> {"N", "E"}
      [] r = SW -> {"S", "W"}
      [] r = SE -> {"S", "E"}

\* C5 (as claimed, for positive wall and passage): a pixel of a corner zone
\* is left unpainted by the cell only if both walls meeting at the corner are
\* carved; with exactly one of them carved the cell paints every pixel of the
\* corner zone.
C5_CornerSkippedOnlyIfBoth ==
    (Drawing /\ Positive) =>
        \A c \in drawn : \A r \in Corners : \A px \in CellRange(c) :
            ZoneOf(r, c, px) =>
                /\ px \notin written[c] => CornerWalls(r) \subseteq cells[c]
                /\ Cardinality(CornerWalls(r) \cap cells[c]) = 1 => px \in written[c]

\* A pixel of corner r that lies in no other zone: both offsets < wall for NW,
\* x offset > cell_span - wall and y offset < wall for NE, and so on.
InCornerOnly(r, c, px) ==
    LET lowX == OffX(c, px) < wall_width
        highX == OffX(c, px) > cell_width - wall_width
        lowY == OffY(c, px) < wall_width
        highY == OffY(c, px) > cell_width - wall_width
    IN CASE r = NW -> lowX /\ lowY
         [] r = NE -> highX /\ lowY
         [] r = SW -> lowX /\ highY
         [] r = SE -> highX /\ highY

\* C5 (amended): a pixel of a corner zone that lies in no other zone is left
\* unpainted by the cell only if both walls meeting at the corner are carved;
\* with exactly one of them carved the cell paints every such pixel.
C5_CornerInteriorSkippedOnlyIfBoth ==
    Drawing =>
        \A c \in drawn : \A r \in Corners : \A px \in CellRange(c) :
            InCornerOnly(r, c, px) =>
                /\ px \notin written[c] => CornerWalls(r) \subseteq cells[c]
                /\ Cardinality(CornerWalls(r) \cap cells[c]) = 1 => px \in written[c]

\* C5 witness: a drawn cell with exactly one wall of a corner carved has
\* painted a pixel that lies in that corner only, and some drawn cell with
\* both walls of a corner carved has left such a pixel unpainted.
C5_Witness ==
    /\ pc = "done"
    /\ \E c \in drawn : \E r \in Corners : \E px \in CellRange(c) :
        /\ InCornerOnly(r, c, px)
        /\ Cardinality(CornerWalls(r) \cap cells[c]) = 1
        /\ px \in written[c]
    /\ \E c \in drawn : \E r \in Corners : \E px \in CellRange(c) :
        /\ InCornerOnly(r, c, px)
        /\ CornerWalls(r) \subseteq cells[c]
        /\ px \notin written[c]

\* C6: the buffer format creates has width (2w+p)*W - (W-1)*w + 2m and height
\* (2w+p)*H - (H-1)*w + 2m; for a 4 x 4 grid and the defaults it is 460 x 460.
C6_BufferSize ==
    pc = "sized" =>
        /\ image_width = (2 * wall_width + passage_width) * grid_width
                            - (grid_width - 1) * wall_width + 2 * margin
        /\ image_height = (2 * wall_width + passage_width) * grid_height
                            - (grid_height - 1) * wall_width + 2 * margin
        /\ (/\ wall_width = 40 /\ passage_width = 40 /\ margin = 50
            /\ grid_width = 4 /\ grid_height = 4)
              => image_width = 460 /\ image_height = 460

\* C6 witness: format has sized the buffer of a 4 x 4 grid with the defaults.
C6_Witness ==
    /\ pc = "sized"
    /\ grid_width = 4 /\ grid_height = 4
    /\ wall_width = 40 /\ passage_width = 40 /\ margin = 50
    /\ image_width = 460

\* The wall symmetry invariant of the grid.
WallSymmetry ==
    \A c \in Coords : \A p \in Poles :
        carved(cells[c], p) =>
            /\ Neighbor(c, p) \in Coords
            /\ carved(cells[Neighbor(c, p)], opposite(p))

\* C7: after any sequence of carve_passage calls on a new grid the wall
\* symmetry invariant holds, and a call that fails with OutOfBounds changes
\* no cell.
C7_SymmetryAndAtomicity ==
    [][WallSymmetry' /\ (carve_result' = "OutOfBounds" => cells' = cells)]_vars

\* C7 witness: a call failed with OutOfBounds on a grid that has carved walls.
C7_Witness ==
    /\ carve_result = "OutOfBounds"
    /\ \E c \in Coords : cells[c] # {}

\* The value a parameter must have given the last value set for it.
LastSetOr(logged, default) == IF logged = Unset THEN default ELSE logged[1]

\* C8: Image::new() yields wall 40, passage 40, margin 50, background
\* (250,250,250), foreground (0,0,0), and after any sequence of setter calls
\* each parameter equals the last value set for it, or its default when it
\* was never set.
C8_SettersAreIndependent ==
    /\ wall_width = LastSetOr(set_log.wall, 40)
    /\ passage_width = LastSetOr(set_log.passage, 40)
    /\ margin = LastSetOr(set_log.margin, 50)
    /\ background_color = LastSetOr(set_log.background, <<250, 250, 250>>)
    /\ foreground_color = LastSetOr(set_log.foreground, <<0, 0, 0>>)

\* C8 witness: some setters were called and the others never.
C8_Witness ==
    /\ set_log.wall # Unset
    /\ set_log.foreground # Unset
    /\ set_log.passage = Unset
    /\ set_log.margin = Unset
    /\ set_log.background = Unset
    /\ wall_width # 40

\* C9 (as claimed): in the finished image every pixel within `margin` of one
\* of the four sides is background, for wall, passage, margin >= 1.
C9_MarginIsBackground ==
    (/\ pc = "done"
     /\ wall_width >= 1 /\ passage_width >= 1 /\ margin >= 1) =>
        \A px \in DOMAIN image :
            (\/ px[1] < margin
             \/ px[2] < margin
             \/ px[1] >= image_width - margin
             \/ px[2] >= image_height - margin) => image[px] = background_color

\* C10: whatever the order of the per-cell draws, a pixel of the buffer holds
\* the foreground colour if some cell drawn so far paints it and the
\* background colour otherwise, and what a cell paints does not depend on
\* when it is drawn; so the finished image is the same under every order.
C10_OrderIndependent ==
    Drawing =>
        /\ \A c \in drawn : written[c] = CellPixels(c)
        /\ image = [px \in (0 .. image_width - 1) \X (0 .. image_height - 1) |->
                      IF \E c \in drawn : px \in written[c]
                      THEN foreground_color ELSE background_color]

\* C10 witness: the last cell in row-major order was drawn first and painted
\* pixels, in a grid of several cells with distinct colours.
C10_Witness ==
    /\ pc = "draw"
    /\ Cardinality(Coords) >= 2
    /\ drawn = {<<grid_width - 1, grid_height - 1>>}
    /\ written[<<grid_width - 1, grid_height - 1>>] # {}
    /\ background_color # foreground_color

====
